---- MODULE Spec2Model ----
(***************************************************************************)
(* Model of the two fetch-and-normalize pipelines of es642-rh-correction:  *)
(*   src/src/utahaq_api_get.py    (CSV archive, one request per month)      *)
(*   src/src/synoptic_api_get.py  (JSON timeseries, one request)            *)
(* The process is single threaded: one call runs at a time, `pc` is its     *)
(* position.  The providers (archive contents, JSON response, transport     *)
(* failures) and the process environment are the nondeterministic inputs.   *)
(***************************************************************************)
EXTENDS Integers, Sequences, FiniteSets, TLC

VARIABLES
    env,                  \* os.environ: variable name -> value ("None" = unset)
    UTAHAQ_API_TOKEN,     \* module global of utahaq_api_get.py (line 11)
    SYNOPTIC_API_TOKEN,   \* module global of synoptic_api_get.py (line 11)
    archive,              \* provider B: month index -> kind of body it holds
    pc,                   \* position of the running call
    call,                 \* arguments of the running / last call
    query_dates,          \* utahaq_api_get: the dates the loop runs over
    i,                    \* utahaq_api_get: 1-based position in query_dates
    df_list,              \* utahaq_api_get: results of the batches so far
    inflight,             \* requests sent and not yet answered
    requests,             \* requests issued by the running / last call, in order
    envAtRequest,         \* environment at the time of the call of each request
    answers,              \* how each answered request ended, in order
    envAtLoad,            \* environment when the two modules were imported
    res,                  \* synoptic_api_get: parsed JSON body
    result,               \* table returned (meaningful when pc = "done")
    error                 \* exception that reached the caller (pc = "raised")

vars == <<env, UTAHAQ_API_TOKEN, SYNOPTIC_API_TOKEN, archive, pc, call,
          query_dates, i, df_list, inflight, requests, envAtRequest, answers,
          envAtLoad, res, result, error>>

----------------------------------------------------------------------------
(* Bounds of the model *)

\* calendar months the modelled timeline covers
NumMonths == 3
\* days per modelled month (every month has the same length in the model)
MaxDay == 2
\* instants per day (time of day 0 is midnight)
TicksPerDay == 2
\* first month of the timeline: BaseMonth of BaseYear (spans a new year)
BaseYear == 2018
BaseMonth == 11
\* stations in one JSON response of provider A
MaxStations == 2
\* the provider's time strings run over the hours 0..MaxHour
MaxHour == 1

----------------------------------------------------------------------------
(* Timestamps: pd.Timestamp as an integer count of ticks since the first   *)
(* instant of the timeline, with the calendar fields the code reads.        *)

TicksPerMonth == MaxDay * TicksPerDay
Timeline == 0 .. (NumMonths * TicksPerMonth - 1)
Months == 0 .. (NumMonths - 1)
BaseAbsMonth == BaseYear * 12 + (BaseMonth - 1)

MonthIdx(t) == t \div TicksPerMonth
Day(t) == ((t % TicksPerMonth) \div TicksPerDay) + 1
Tod(t) == t % TicksPerDay
Year(t) == (BaseAbsMonth + MonthIdx(t)) \div 12
Month(t) == ((BaseAbsMonth + MonthIdx(t)) % 12) + 1

\* str(n).zfill(width), a string of decimal digits as a sequence of digits
RECURSIVE Digits(_)
Digits(n) == IF n < 10 THEN <<n>> ELSE Append(Digits(n \div 10), n % 10)

RECURSIVE zfill(_, _)
zfill(s, width) == IF Len(s) >= width THEN s ELSE zfill(<<0>> \o s, width)

RECURSIVE DigitsToNat(_)
DigitsToNat(s) ==
    IF Len(s) = 0 THEN 0
    ELSE 10 * DigitsToNat(SubSeq(s, 1, Len(s) - 1)) + s[Len(s)]

\* str.upper() / str.lower() on the station codes and datatypes of the model
upper(s) == CASE s = "hawth" -> "HAWTH" [] s = "pm" -> "PM" [] OTHER -> s
lower(s) == CASE s = "HAWTH" -> "hawth" [] s = "PM" -> "pm" [] OTHER -> s

(* pd.date_range(start=start, end=end, freq='MS'): start is rolled forward  *)
(* to the next first-of-month (keeping its time of day) unless its day is   *)
(* 1, then one date per month while <= end.  Some pandas releases also roll *)
(* `end` back to the first of its month when start is on a month start and  *)
(* end is not; rollbackEnd selects that release.                            *)
date_range(start, end, rollbackEnd) ==
    LET first == IF Day(start) = 1 THEN start
                 ELSE (MonthIdx(start) + 1) * TicksPerMonth + Tod(start)
        last  == IF rollbackEnd /\ Day(start) = 1 /\ Day(end) # 1
                 THEN MonthIdx(end) * TicksPerMonth + Tod(end)
                 ELSE end
        n     == IF first > last THEN 0
                 ELSE ((last - first) \div TicksPerMonth) + 1
    IN  [k \in 1..n |-> first + (k - 1) * TicksPerMonth]

----------------------------------------------------------------------------
(* Provider B: the archive *)

\* a body with nothing to parse: pd.read_csv raises EmptyDataError
EmptyBody == [empty |-> TRUE, rows |-> <<>>]

\* quality flag of the archive row at instant t under a flag pattern
ErrorCodeAt(t, pattern) ==
    IF pattern = "flagged" /\ (Day(t) + Tod(t)) % 2 = 0 THEN 1 ELSE 0

\* the CSV row (after the metadata row and the header) for instant t
CsvRow(t, pattern) ==
    [Date |-> <<Year(t), Month(t), Day(t)>>,
     TimeUTC |-> Tod(t),
     esampler_error_code |-> ErrorCodeAt(t, pattern),
     esampler_pm25_ugm3 |-> Day(t),
     esampler_rh_pcent |-> 20 + Tod(t),
     esampler_flow_lpm |-> 2]

\* a month with data: one row per instant of the month, in time order
FullBody(m, pattern) ==
    [empty |-> FALSE,
     rows |-> [k \in 1..TicksPerMonth |->
                  CsvRow(m * TicksPerMonth + (k - 1), pattern)]]

\* the archive holds, for each month, no data or a full month of rows
BodyKinds == {"empty", "clean", "flagged"}
Archives == [Months -> BodyKinds]

\* the body the archive holds for month m
BodyOf(m) ==
    IF archive[m] = "empty" THEN EmptyBody ELSE FullBody(m, archive[m])

\* what the archive endpoint answers to a request
ServedBody(req) ==
    LET m == DigitsToNat(req.yr) * 12 + (DigitsToNat(req.mo) - 1) - BaseAbsMonth
    IN  IF m \in Months THEN BodyOf(m) ELSE EmptyBody

----------------------------------------------------------------------------
(* Process environment and module load *)

TokenValues == {"None", "tokA", "tokB"}
EnvNames == {"UTAHAQ_API_TOKEN", "SYNOPTIC_API_TOKEN"}

\* os.getenv(name): the value the environment holds now
getenv(name) == env[name]

\* the variables of a call, as they are when no call has run
NoCall == [fn |-> "None"]
NoResponse == [SUMMARY |-> [RESPONSE_CODE |-> 0], STATION |-> <<>>]

CallCleared ==
    /\ pc = "idle"
    /\ call = NoCall
    /\ query_dates = <<>>
    /\ i = 1
    /\ df_list = <<>>
    /\ inflight = <<>>
    /\ requests = <<>>
    /\ envAtRequest = <<>>
    /\ answers = <<>>
    /\ res = NoResponse
    /\ result = <<>>
    /\ error = "None"

\* the state once both modules are imported: each token global holds the
\* value os.getenv gave at import (line 11 of each file)
InitLoaded ==
    /\ UTAHAQ_API_TOKEN = getenv("UTAHAQ_API_TOKEN")
    /\ SYNOPTIC_API_TOKEN = getenv("SYNOPTIC_API_TOKEN")
    /\ envAtLoad = env
    /\ CallCleared

\* the environment changes between calls (os.environ[name] = v, or unset)
putenv ==
    /\ pc = "idle"
    /\ \E name \in EnvNames, v \in TokenValues :
          /\ env[name] # v
          /\ env' = [env EXCEPT ![name] = v]
    /\ UNCHANGED <<UTAHAQ_API_TOKEN, SYNOPTIC_API_TOKEN, archive, pc, call,
                   query_dates, i, df_list, inflight, requests, envAtRequest,
                   answers, envAtLoad, res, result, error>>

\* the caller has the table or the exception; the process goes on
call_returns ==
    /\ pc \in {"done", "raised"}
    /\ pc' = "idle"
    /\ call' = NoCall
    /\ query_dates' = <<>>
    /\ i' = 1
    /\ df_list' = <<>>
    /\ inflight' = <<>>
    /\ requests' = <<>>
    /\ envAtRequest' = <<>>
    /\ answers' = <<>>
    /\ res' = NoResponse
    /\ result' = <<>>
    /\ error' = "None"
    /\ UNCHANGED <<env, UTAHAQ_API_TOKEN, SYNOPTIC_API_TOKEN, archive,
                   envAtLoad>>

----------------------------------------------------------------------------
(* utahaq_api_get.py *)

\* the value a batch yields: None, or a frame (a sequence of rows)
None == [isNone |-> TRUE, rows |-> <<>>]
Frame(rows) == [isNone |-> FALSE, rows |-> rows]

\* faulty variant of batch_uri: the token is read from the environment at call time
batch_uri_getenv(stid, yr, mo, datatype) ==
    [accesskey |-> getenv("UTAHAQ_API_TOKEN"),
     stid |-> upper(stid),
     yr |-> zfill(Digits(yr), 4),
     mo |-> zfill(Digits(mo), 2),
     datatype |-> lower(datatype)]

\* line 38-45: the URI of one monthly request
batch_uri(stid, yr, mo, datatype) ==
    [accesskey |-> UTAHAQ_API_TOKEN,
     stid |-> upper(stid),
     yr |-> zfill(Digits(yr), 4),
     mo |-> zfill(Digits(mo), 2),
     datatype |-> lower(datatype)]

\* faulty variant of QualityFilter: the flagged rows are kept
QualityFilter_keeps_flagged(rows) == rows

\* line 52: res[res.esampler_error_code == 0]
QualityFilter(rows) == SelectSeq(rows, LAMBDA r : r.esampler_error_code = 0)

\* line 53: pd.to_datetime(res.Date + ' ' + res.TimeUTC, utc=True)
to_datetime(Date, TimeUTC) ==
    ((Date[1] * 12 + (Date[2] - 1)) - BaseAbsMonth) * TicksPerMonth
        + (Date[3] - 1) * TicksPerDay + TimeUTC

\* line 52-59: filter, index by time, rename, keep the two measurement columns
batch_frame(rows) ==
    LET kept == QualityFilter(rows)
    IN  [k \in 1..Len(kept) |->
            [index |-> to_datetime(kept[k].Date, kept[k].TimeUTC),
             pm25_ugm3 |-> kept[k].esampler_pm25_ugm3,
             rh_pct |-> kept[k].esampler_rh_pcent]]

\* line 47-59: what _utahaq_batch_get returns for the body it read
utahaq_batch_get(body) ==
    IF body.empty THEN None ELSE Frame(batch_frame(body.rows))

\* line 108, pd.concat(df_list): None entries are dropped and the frames are
\* appended in list order
RECURSIVE pd_concat(_)
pd_concat(list) ==
    IF Len(list) = 0 THEN <<>>
    ELSE (IF Head(list).isNone THEN <<>> ELSE Head(list).rows)
            \o pd_concat(Tail(list))

\* faulty variant of AllNone: a single None among the batches already raises
AnyNone(list) == \E k \in 1..Len(list) : list[k].isNone

\* line 108, pd.concat raises ValueError when every object passed is None
AllNone(list) == \A k \in 1..Len(list) : list[k].isNone

\* line 109: df[(df.index >= start) & (df.index <= end)]
RangeFilter(df, start, end) ==
    SelectSeq(df, LAMBDA r : r.index >= start /\ r.index <= end)

\* line 93-97: the call starts; the dates of the loop are computed
utahaq_call(Times) ==
    /\ pc = "idle"
    /\ \E stid \in {"hawth", "HAWTH"}, datatype \in {"PM"},
          start \in Times, end \in Times, rollbackEnd \in BOOLEAN :
          /\ start <= end
          /\ call' = [fn |-> "utahaq_api_get", stid |-> stid,
                      start |-> start, end |-> end, datatype |-> datatype]
          /\ query_dates' =
                LET dates == date_range(start, end, rollbackEnd)
                IN  IF Len(dates) = 0 THEN <<start>> ELSE dates
    /\ df_list' = <<>>
    /\ i' = 1
    /\ pc' = "loop"
    /\ UNCHANGED <<env, UTAHAQ_API_TOKEN, SYNOPTIC_API_TOKEN, archive,
                   inflight, requests, envAtRequest, answers, envAtLoad, res,
                   result, error>>

utahaq_api_get == utahaq_call(Timeline)

\* line 98-105, 33-48: the next date of the loop; its request is sent and
\* read_csv blocks until the answer arrives
utahaq_batch_request ==
    /\ pc = "loop"
    /\ i <= Len(query_dates)
    /\ LET date == query_dates[i]
           uri == batch_uri(call.stid, Year(date), Month(date), call.datatype)
       IN  /\ requests' = Append(requests, uri)
           /\ inflight' = Append(inflight, uri)
    /\ envAtRequest' = Append(envAtRequest, getenv("UTAHAQ_API_TOKEN"))
    /\ pc' = "wait"
    /\ UNCHANGED <<env, UTAHAQ_API_TOKEN, SYNOPTIC_API_TOKEN, archive, call,
                   query_dates, i, df_list, answers, envAtLoad, res, result,
                   error>>

\* line 47-59, 99: the answer is parsed and appended to df_list
utahaq_batch_response ==
    /\ pc = "wait"
    /\ Len(inflight) > 0
    /\ LET body == ServedBody(Head(inflight))
       IN  /\ df_list' = Append(df_list, utahaq_batch_get(body))
           /\ answers' = Append(answers, IF body.empty THEN "empty" ELSE "data")
    /\ inflight' = Tail(inflight)
    /\ i' = i + 1
    /\ pc' = "loop"
    /\ UNCHANGED <<env, UTAHAQ_API_TOKEN, SYNOPTIC_API_TOKEN, archive, call,
                   query_dates, requests, envAtRequest, envAtLoad, res, result,
                   error>>

\* faulty variant of utahaq_batch_transport_failure: the failure is caught like
\* EmptyDataError, the batch yields None and the loop goes on
utahaq_batch_failure_swallowed ==
    /\ pc = "wait"
    /\ Len(inflight) > 0
    /\ inflight' = Tail(inflight)
    /\ answers' = Append(answers, "failure")
    /\ df_list' = Append(df_list, None)
    /\ i' = i + 1
    /\ pc' = "loop"
    /\ UNCHANGED <<env, UTAHAQ_API_TOKEN, SYNOPTIC_API_TOKEN, archive, call,
                   query_dates, requests, envAtRequest, envAtLoad, res, result,
                   error>>

\* line 48: a transport-level failure of read_csv is not caught (only
\* EmptyDataError is): it ends the call
utahaq_batch_transport_failure ==
    /\ pc = "wait"
    /\ Len(inflight) > 0
    /\ inflight' = Tail(inflight)
    /\ answers' = Append(answers, "failure")
    /\ error' = "URLError"
    /\ pc' = "raised"
    /\ UNCHANGED <<env, UTAHAQ_API_TOKEN, SYNOPTIC_API_TOKEN, archive, call,
                   query_dates, i, df_list, requests, envAtRequest, envAtLoad,
                   res, result>>

\* line 108-109: the loop is over; concatenate and cut to [start, end]
utahaq_return ==
    /\ pc = "loop"
    /\ i > Len(query_dates)
    /\ IF AllNone(df_list)
       THEN /\ error' = "ValueError: All objects passed were None"
            /\ pc' = "raised"
            /\ UNCHANGED result
       ELSE /\ result' = RangeFilter(pd_concat(df_list), call.start, call.end)
            /\ pc' = "done"
            /\ UNCHANGED error
    /\ UNCHANGED <<env, UTAHAQ_API_TOKEN, SYNOPTIC_API_TOKEN, archive, call,
                   query_dates, i, df_list, inflight, requests, envAtRequest,
                   answers, envAtLoad, res>>

\* provider B alone: any archive, a fixed environment
InitB ==
    /\ env = [name \in EnvNames |-> "tokA"]
    /\ archive \in Archives
    /\ InitLoaded

NextB ==
    \/ utahaq_api_get
    \/ utahaq_batch_request
    \/ utahaq_batch_response
    \/ utahaq_batch_transport_failure
    \/ utahaq_return
    \/ call_returns

SpecB == InitB /\ [][NextB]_vars

----------------------------------------------------------------------------
(* synoptic_api_get.py *)

\* ','.join(list): a string is modelled as the sequence of its parts
RECURSIVE join(_)
join(list) ==
    IF Len(list) = 0 THEN <<>>
    ELSE IF Len(list) = 1 THEN <<list[1]>>
    ELSE <<list[1], ",">> \o join(Tail(list))

\* line 39-43: a list argument is joined, a str (or None) is passed as it is
joined(arg) == IF arg.type = "list" THEN join(arg.val) ELSE arg.val

\* line 51-57: the query parameters
synoptic_params(stid, start, end, api_vars) ==
    [token |-> SYNOPTIC_API_TOKEN,
     stid |-> joined(stid),
     start |-> start,
     end |-> end,
     vars |-> joined(api_vars)]

\* faulty variant of InvalidTokenCodes: 200 is read as success
InvalidTokenCodes_without_200 == {-1}

\* line 64: the status values read as an invalid token
InvalidTokenCodes == {-1, 200}
\* line 66: the status value read as "no data"
NoDataCode == 2

\* line 65 and 67: the two exceptions raised on the status
OSErrorInvalidToken ==
    "OSError: SYNOPTIC_API_TOKEN environment variable invalid."
ValueErrorNoData ==
    "ValueError: No data found. Try a different stid or time range."

\* line 72, pd.to_datetime(obs['date_time'], utc=True): the provider's time
\* strings "HH:MM" (as <<HH, MM>>) become minutes since the start of the day
parse_date_time(strings) ==
    [k \in 1..Len(strings) |-> strings[k][1] * 60 + strings[k][2]]

\* line 78-79, float(station['LATITUDE']): the coordinates arrive as text;
\* the value is kept in units of 1e-5 degree
float(s) ==
    CASE s = "40.77069" -> 4077069
      [] s = "-111.96503" -> -11196503
      [] OTHER -> 0

\* faulty variant of remaining_fields: date_time is not popped
remaining_fields_without_pop(obs) == DOMAIN obs

\* line 73 and 80: obs.pop('date_time') and **obs, the remaining fields
remaining_fields(obs) == DOMAIN obs \ {"date_time"}

\* line 71-82: the table of one station
station_frame(station) ==
    LET obs == station.OBSERVATIONS
        date == parse_date_time(obs["date_time"])
        fields == remaining_fields(obs)
        fixed == {"date", "stid", "latitude", "longitude"}
    IN  [columns |-> fixed \cup fields,
         rows |-> [k \in 1..Len(date) |->
             [c \in fixed \cup fields |->
                 IF c \in fields THEN obs[c][k]
                 ELSE IF c = "date" THEN date[k]
                 ELSE IF c = "stid" THEN station.STID
                 ELSE IF c = "latitude" THEN float(station.LATITUDE)
                 ELSE float(station.LONGITUDE)]]]

\* faulty variant of concat_rows: the frames are appended in reverse list order
RECURSIVE concat_rows_reversed(_)
concat_rows_reversed(frames) ==
    IF Len(frames) = 0 THEN <<>>
    ELSE concat_rows_reversed(Tail(frames)) \o Head(frames).rows

\* line 83, pd.concat(df_list, ignore_index=True): the rows of the frames in
\* list order over the union of their columns, a missing cell being NaN
RECURSIVE concat_rows(_)
concat_rows(frames) ==
    IF Len(frames) = 0 THEN <<>>
    ELSE Head(frames).rows \o concat_rows(Tail(frames))

pd_concat_frames(frames) ==
    LET columns == UNION {frames[k].columns : k \in 1..Len(frames)}
        rows == concat_rows(frames)
    IN  [columns |-> columns,
         rows |-> [k \in 1..Len(rows) |->
             [c \in columns |->
                 IF c \in DOMAIN rows[k] THEN rows[k][c] ELSE "NaN"]]]

\* line 83, .set_index('date'): the date column becomes the index
set_index_date(df) ==
    [index |-> [k \in 1..Len(df.rows) |-> df.rows[k]["date"]],
     columns |-> df.columns \ {"date"},
     rows |-> [k \in 1..Len(df.rows) |->
                 [c \in df.columns \ {"date"} |-> df.rows[k][c]]]]

\* line 69-83: the table built from the STATION list
synoptic_table(STATION) ==
    set_index_date(pd_concat_frames(
        [k \in 1..Len(STATION) |-> station_frame(STATION[k])]))

(* Provider A: the responses *)

StationIds == <<"KSLC", "WBB", "MTMET", "UUSYR">>
Variables == {"air_temp", "wind_speed"}
FieldOf(v) == IF v = "air_temp" THEN "air_temp_set_1" ELSE "wind_speed_set_1"

\* the ascending sequence of the hours of a set
RECURSIVE Ascending(_)
Ascending(hours) ==
    IF hours = {} THEN <<>>
    ELSE LET h == CHOOSE x \in hours : \A y \in hours : x <= y
         IN  <<h>> \o Ascending(hours \ {h})

\* the OBSERVATIONS map of a station reporting `vs` at `hours`, the arrays
\* positionally aligned
Observations(hours, vs) ==
    LET times == Ascending(hours)
    IN  [f \in {"date_time"} \cup {FieldOf(v) : v \in vs} |->
            IF f = "date_time"
            THEN [k \in 1..Len(times) |-> <<times[k], 0>>]
            ELSE [k \in 1..Len(times) |-> times[k] - 5]]

StationAt(k, hours, vs) ==
    [STID |-> StationIds[k], LATITUDE |-> "40.77069",
     LONGITUDE |-> "-111.96503", OBSERVATIONS |-> Observations(hours, vs)]

StationChoices(k) ==
    {StationAt(k, hours, vs) : hours \in SUBSET (0..MaxHour), vs \in SUBSET Variables}

\* the STATION lists of exactly n stations, and of up to MaxStations
RECURSIVE StationListsOf(_)
StationListsOf(n) ==
    IF n = 0 THEN {<<>>}
    ELSE {Append(l, s) : l \in StationListsOf(n - 1), s \in StationChoices(n)}

StationListsUpTo(max) == UNION {StationListsOf(n) : n \in 0..max}

Response(code, STATION) ==
    [SUMMARY |-> [RESPONSE_CODE |-> code], STATION |-> STATION]

\* a failure status comes without stations; 1 is the provider's OK, 0 stands
\* for any other value
Responses(max) ==
    {Response(code, <<>>) : code \in {-1, 200, 2}}
        \cup {Response(code, l) : code \in {0, 1}, l \in StationListsUpTo(max)}

\* the arguments of the calls: one station and a list of variables, or a
\* list of stations and no variables
SynopticArgs ==
    {[stid |-> [type |-> "str", val |-> <<"kslc">>],
      api_vars |-> [type |-> "list", val |-> <<"air_temp">>]],
     [stid |-> [type |-> "list", val |-> <<"kslc", "wbb">>],
      api_vars |-> [type |-> "NoneType", val |-> <<>>]]}

\* line 39-58: the arguments are normalised and the one request is sent
synoptic_request(stid, start, end, api_vars) ==
    /\ call' = [fn |-> "synoptic_api_get", stid |-> stid, start |-> start,
                end |-> end, api_vars |-> api_vars]
    /\ requests' = <<synoptic_params(stid, start, end, api_vars)>>
    /\ envAtRequest' = <<getenv("SYNOPTIC_API_TOKEN")>>

\* line 39-83: one call, answered with a JSON body
synoptic_call(Bodies) ==
    /\ pc = "idle"
    /\ \E args \in SynopticArgs, body \in Bodies :
          /\ synoptic_request(args.stid, "201901010000", "201901010010",
                              args.api_vars)
          /\ res' = body
          /\ answers' = <<"data">>
          /\ LET code == body.SUMMARY.RESPONSE_CODE
             IN  IF code \in InvalidTokenCodes
                 THEN /\ error' = OSErrorInvalidToken
                      /\ pc' = "raised"
                      /\ UNCHANGED result
                 ELSE IF code = NoDataCode
                 THEN /\ error' = ValueErrorNoData
                      /\ pc' = "raised"
                      /\ UNCHANGED result
                 ELSE IF Len(body.STATION) = 0
                 THEN /\ error' = "ValueError: No objects to concatenate"
                      /\ pc' = "raised"
                      /\ UNCHANGED result
                 ELSE /\ result' = synoptic_table(body.STATION)
                      /\ pc' = "done"
                      /\ UNCHANGED error
    /\ UNCHANGED <<env, UTAHAQ_API_TOKEN, SYNOPTIC_API_TOKEN, archive,
                   query_dates, i, df_list, inflight, envAtLoad>>

synoptic_api_get == synoptic_call(Responses(MaxStations))

\* line 58: a transport-level failure of requests.get(...).json() is not
\* caught: it ends the call
synoptic_transport_failure ==
    /\ pc = "idle"
    /\ \E args \in SynopticArgs :
          synoptic_request(args.stid, "201901010000", "201901010010",
                           args.api_vars)
    /\ answers' = <<"failure">>
    /\ error' = "ConnectionError"
    /\ pc' = "raised"
    /\ UNCHANGED <<env, UTAHAQ_API_TOKEN, SYNOPTIC_API_TOKEN, archive,
                   query_dates, i, df_list, inflight, envAtLoad, res, result>>

\* provider A alone: a fixed environment, the archive plays no part
InitA ==
    /\ env = [name \in EnvNames |-> "tokA"]
    /\ archive = [m \in Months |-> "empty"]
    /\ InitLoaded

NextA ==
    \/ synoptic_api_get
    \/ synoptic_transport_failure
    \/ call_returns

SpecA == InitA /\ [][NextA]_vars

----------------------------------------------------------------------------
(* Both providers with a changing environment.  The content of the answers  *)
(* plays no part in which token a request carries, so the calls are drawn   *)
(* from a sample: ranges between month starts, one failure status and one   *)
(* station.                                                                 *)

MonthStarts == {t \in Timeline : Day(t) = 1 /\ Tod(t) = 0}
SampleResponses ==
    {Response(200, <<>>), Response(1, <<StationAt(1, {0}, {"air_temp"})>>)}

utahaq_api_get_sampled == utahaq_call(MonthStarts)
synoptic_api_get_sampled == synoptic_call(SampleResponses)

InitTok ==
    /\ env \in [EnvNames -> TokenValues]
    /\ archive = [m \in Months |-> "clean"]
    /\ InitLoaded

NextTok ==
    \/ putenv
    \/ utahaq_api_get_sampled
    \/ utahaq_batch_request
    \/ utahaq_batch_response
    \/ utahaq_batch_transport_failure
    \/ utahaq_return
    \/ synoptic_api_get_sampled
    \/ synoptic_transport_failure
    \/ call_returns

SpecTok == InitTok /\ [][NextTok]_vars

----------------------------------------------------------------------------
(* Properties *)

\* the call of `fn` has ended: a table was returned or an exception raised
Ended(fn) == call.fn = fn /\ pc \in {"done", "raised"}

\* the month (index on the timeline) a monthly request asks for
RequestedMonth(req) ==
    DigitsToNat(req.yr) * 12 + (DigitsToNat(req.mo) - 1) - BaseAbsMonth

RequestedMonths == {RequestedMonth(requests[k]) : k \in 1..Len(requests)}

NoTransportFailure == \A k \in 1..Len(answers) : answers[k] # "failure"

\* the archive holds a row for instant t, and the row itself
HasRow(t) == archive[MonthIdx(t)] # "empty"
RowAt(t) == CsvRow(t, archive[MonthIdx(t)])

\* C1: a call with start <= end issues exactly one request per calendar month
\* that intersects [start, end], the month of start included (one request
\* when both lie in one month, N+1 when the range spans N month boundaries).
C1_OneRequestPerCoveredMonth ==
    (Ended("utahaq_api_get") /\ NoTransportFailure) =>
        LET covered == MonthIdx(call.start) .. MonthIdx(call.end)
        IN  /\ Len(requests) = Cardinality(covered)
            /\ RequestedMonths = covered

\* C2: when every monthly batch has an empty body, the call returns an empty
\* table and raises no error.
C2_AllEmptyReturnsEmptyTable ==
    (/\ Ended("utahaq_api_get")
     /\ Len(answers) = Len(query_dates)
     /\ \A k \in 1..Len(answers) : answers[k] = "empty")
        => (pc = "done" /\ error = "None" /\ result = <<>>)

\* the token a request carries, and the environment variable it stands for
TokenOf(req) ==
    IF call.fn = "utahaq_api_get" THEN req.accesskey ELSE req.token
TokenName ==
    IF call.fn = "utahaq_api_get" THEN "UTAHAQ_API_TOKEN"
    ELSE "SYNOPTIC_API_TOKEN"

C4_RowsInRangeAndUnflagged ==
    (call.fn = "utahaq_api_get" /\ pc = "done") =>
        \A k \in 1..Len(result) :
            LET t == result[k].index
            IN  /\ call.start <= t /\ t <= call.end
                /\ t \in Timeline
                /\ MonthIdx(t) \in RequestedMonths
                /\ HasRow(t)
                /\ RowAt(t).esampler_error_code = 0
                /\ result[k].pm25_ugm3 = RowAt(t).esampler_pm25_ugm3
                /\ result[k].rh_pct = RowAt(t).esampler_rh_pcent

\* a table with rows was returned although the requested months also held a
\* flagged row inside the range and a row outside it
C4_Witness ==
    /\ call.fn = "utahaq_api_get" /\ pc = "done"
    /\ Len(result) > 0
    /\ \E t \in Timeline :
          /\ MonthIdx(t) \in RequestedMonths /\ HasRow(t)
          /\ call.start <= t /\ t <= call.end
          /\ RowAt(t).esampler_error_code # 0
    /\ \E t \in Timeline :
          /\ MonthIdx(t) \in RequestedMonths /\ HasRow(t)
          /\ RowAt(t).esampler_error_code = 0
          /\ (t < call.start \/ t > call.end)

\* C5: status -1 or 200 ends the call with the OSError and no table, status 2
\* with the ValueError and no table; with any other status neither error is
\* raised and the STATION list is normalised into the table.
C5_StatusMapping ==
    (Ended("synoptic_api_get") /\ answers = <<"data">>) =>
        LET code == res.SUMMARY.RESPONSE_CODE
        IN  /\ code \in {-1, 200} =>
                (pc = "raised" /\ error = OSErrorInvalidToken /\ result = <<>>)
            /\ code = 2 =>
                (pc = "raised" /\ error = ValueErrorNoData /\ result = <<>>)
            /\ code \notin {-1, 200, 2} =>
                /\ error \notin {OSErrorInvalidToken, ValueErrorNoData}
                /\ Len(res.STATION) > 0 =>
                      (pc = "done" /\ Len(result.index) =
                          Len(concat_rows([k \in 1..Len(res.STATION) |->
                                station_frame(res.STATION[k])])))

\* a response with status 200 ended the call with the OSError
C5_Witness ==
    /\ Ended("synoptic_api_get") /\ answers = <<"data">>
    /\ res.SUMMARY.RESPONSE_CODE = 200
    /\ pc = "raised"

\* the parsed times of station k and the place of its block in the table
StationTimes(k) == parse_date_time(res.STATION[k].OBSERVATIONS["date_time"])
RECURSIVE BlockOffset(_)
BlockOffset(k) ==
    IF k = 1 THEN 0 ELSE BlockOffset(k - 1) + Len(StationTimes(k - 1))

SynopticDone == call.fn = "synoptic_api_get" /\ pc = "done"

\* C6 (as claimed): the returned table is ordered ascending by its index over
\* all rows, also when several stations overlap in time.
C6_IndexAscending ==
    SynopticDone =>
        \A k \in 1..(Len(result.index) - 1) :
            result.index[k] <= result.index[k + 1]

\* C6 (amended): the returned table holds one block of rows per station, in
\* response order, each block carrying the station's date_time array in the
\* provider's order; so the index is ascending within each station's block
\* (the provider's arrays being ascending), not over all rows.
C6_IndexAscendingPerStation ==
    SynopticDone =>
        /\ Len(result.index) =
              BlockOffset(Len(res.STATION)) + Len(StationTimes(Len(res.STATION)))
        /\ \A k \in 1..Len(res.STATION) :
              /\ \A p \in 1..Len(StationTimes(k)) :
                    result.index[BlockOffset(k) + p] = StationTimes(k)[p]
              /\ \A p \in 1..(Len(StationTimes(k)) - 1) :
                    result.index[BlockOffset(k) + p]
                        <= result.index[BlockOffset(k) + p + 1]

\* two stations whose time series overlap: the table is not ascending
C6_Witness ==
    /\ SynopticDone
    /\ Len(res.STATION) >= 2
    /\ \E k \in 1..(Len(result.index) - 1) :
          result.index[k] > result.index[k + 1]

C8_AllRowsInRangeReturned ==
    (call.fn = "utahaq_api_get" /\ pc = "done") =>
        \A t \in Timeline :
            (/\ call.start <= t /\ t <= call.end
             /\ HasRow(t)
             /\ RowAt(t).esampler_error_code = 0)
                => \E k \in 1..Len(result) : result[k].index = t

\* C9: the monthly requests go out one at a time in strictly ascending month
\* order, each after the previous one was answered; there is never more than
\* one in flight; a transport failure reaches the caller and is the last
\* request of the call.
C9_SequentialRequests ==
    call.fn = "utahaq_api_get" =>
        /\ Len(inflight) <= 1
        /\ Len(answers) + Len(inflight) = Len(requests)
        /\ \A j \in 1..Len(requests) : \A k \in 1..Len(requests) :
              j < k => RequestedMonth(requests[j]) < RequestedMonth(requests[k])
        /\ \A k \in 1..Len(answers) :
              answers[k] = "failure" =>
                  (k = Len(requests) /\ pc = "raised" /\ error = "URLError")

\* a request failed in transport while later months were still to be asked
C9_Witness ==
    /\ call.fn = "utahaq_api_get"
    /\ pc = "raised" /\ error = "URLError"
    /\ Len(requests) >= 2
    /\ Len(requests) < Len(query_dates)

\* the rows expected from the data months that were requested: the unflagged
\* archive rows inside [start, end], in time order
ExpectedRows ==
    LET ticks == [k \in 1..(NumMonths * TicksPerMonth) |-> k - 1]
        kept == SelectSeq(ticks, LAMBDA t :
                    /\ MonthIdx(t) \in RequestedMonths
                    /\ HasRow(t)
                    /\ RowAt(t).esampler_error_code = 0
                    /\ call.start <= t /\ t <= call.end)
    IN  [k \in 1..Len(kept) |->
            [index |-> kept[k],
             pm25_ugm3 |-> RowAt(kept[k]).esampler_pm25_ugm3,
             rh_pct |-> RowAt(kept[k]).esampler_rh_pcent]]

SomeEmptySomeData ==
    /\ Ended("utahaq_api_get")
    /\ Len(answers) = Len(query_dates)
    /\ NoTransportFailure
    /\ \E k \in 1..Len(answers) : answers[k] = "empty"
    /\ \E k \in 1..Len(answers) : answers[k] = "data"

\* C10: when some but not all monthly batches are empty, no error is raised
\* and the call returns the rows of the non-empty batches in chronological
\* month order, cut to [start, end], as if the empty months were not asked.
C10_EmptyMonthsContributeNothing ==
    SomeEmptySomeData =>
        (pc = "done" /\ error = "None" /\ result = ExpectedRows)

\* an empty month between two months with data, rows of both returned
C10_Witness ==
    /\ SomeEmptySomeData
    /\ Len(answers) >= 3
    /\ answers[1] = "data" /\ answers[2] = "empty" /\ answers[3] = "data"
    /\ \E j \in 1..Len(result) : \E k \in 1..Len(result) :
          MonthIdx(result[j].index) # MonthIdx(result[k].index)

====
